---------------------------- MODULE Spec2Model ----------------------------
(***************************************************************************)
(* A model of minicdn_core (src/minicdn_core/src/lib.rs), built with the   *)
(* features config, mime, etag, last_modified, brotli, gzip and webp.  The  *)
(* etag and last_modified texts of a record are left out of it: the first  *)
(* is a function of its contents, the second of the file's metadata, whose *)
(* query is modelled by last_modified.                                     *)
(*                                                                         *)
(* Text (Rust str / OsStr) is a sequence of one-character strings, so that *)
(* starts_with, ends_with, strip_suffix, split_once and the byte order of  *)
(* file names are computed on characters as the code computes them.        *)
(* A file system is a function from absolute paths (sequences of names) to *)
(* nodes: a directory, a regular file with its bytes, or a symbolic link   *)
(* with its target.                                                        *)
(***************************************************************************)
EXTENDS Integers, Sequences, FiniteSets, TLC

VARIABLES
    fs,        \* the file system (unchanging while a store is built or read)
    root,      \* the root_path text the store was given
    cdn,       \* the MiniCdn value: its mode and, when Embedded, its files
    last,      \* the last MiniCdn::get call: the requested path and its result
    walk,      \* EmbeddedMiniCdn::new_compressed in progress (its locals)
    sizes,     \* inputs of the codec threshold tests
    call       \* FilesystemMiniCdn::get in progress (its locals)

vars == <<fs, root, cdn, last, walk, sizes, call>>

-----------------------------------------------------------------------------
(* Text *)

\* The characters the model's names use, in byte order (OsStr::cmp).
Ascii ==
    << ".", "/", "1", "2", "a", "b", "c", "d", "e", "f", "g", "i", "j",
       "l", "m", "n", "o", "p", "r", "s", "t", "v", "x", "z" >>

Ord(c) == CHOOSE i \in 1..Len(Ascii) : Ascii[i] = c

Min(a, b) == IF a < b THEN a ELSE b

\* <[u8] as Ord>::cmp(a, b) = Less
TextLess(a, b) ==
    \E i \in 1..(Min(Len(a), Len(b)) + 1) :
        /\ \A j \in 1..(i - 1) : a[j] = b[j]
        /\ \/ i = Len(a) + 1 /\ i <= Len(b)
           \/ i <= Len(a) /\ i <= Len(b) /\ Ord(a[i]) < Ord(b[i])

\* str::starts_with
StartsWith(s, prefix) ==
    /\ Len(prefix) <= Len(s)
    /\ SubSeq(s, 1, Len(prefix)) = prefix

\* str::ends_with
EndsWith(s, suffix) ==
    /\ Len(suffix) <= Len(s)
    /\ SubSeq(s, Len(s) - Len(suffix) + 1, Len(s)) = suffix

\* position of the first c in s, 0 when there is none
IndexOf(s, c) ==
    IF \E i \in 1..Len(s) : s[i] = c
    THEN CHOOSE i \in 1..Len(s) : s[i] = c /\ \A j \in 1..(i - 1) : s[j] # c
    ELSE 0

\* position of the last c in s, 0 when there is none
LastIndexOf(s, c) ==
    IF \E i \in 1..Len(s) : s[i] = c
    THEN CHOOSE i \in 1..Len(s) : s[i] = c /\ \A j \in (i + 1)..Len(s) : s[j] # c
    ELSE 0

RECURSIVE SplitOn(_, _)
\* str::split(sep), collected
SplitOn(s, sep) ==
    LET i == IndexOf(s, sep)
    IN  IF i = 0 THEN << s >>
        ELSE << SubSeq(s, 1, i - 1) >> \o SplitOn(SubSeq(s, i + 1, Len(s)), sep)

RECURSIVE JoinWith(_, _)
\* the names joined with the separator
JoinWith(names, sep) ==
    IF names = << >> THEN << >>
    ELSE IF Len(names) = 1 THEN names[1]
    ELSE names[1] \o << sep >> \o JoinWith(Tail(names), sep)

None == << >>
Some(x) == << x >>

\* File names with this suffix are treated as config files.
CONFIG_SUFFIX == << ".", "m", "i", "n", "i", "c", "d", "n" >>

-----------------------------------------------------------------------------
(* The file system *)

\* A node: a regular file also carries what toml::from_slice makes of its bytes
\* (Failed when they are no well-formed descriptor body, else Some(document)).
\* io::Result: Failed, or Some(the value)
Failed == << >>

Dir == [kind |-> "dir", contents |-> << >>, to |-> << >>, toml |-> Failed]
File(bytes) == [kind |-> "file", contents |-> bytes, to |-> << >>, toml |-> Failed]
Link(target) == [kind |-> "link", contents |-> << >>, to |-> target, toml |-> Failed]
Descriptor(bytes, parsed) ==
    [kind |-> "file", contents |-> bytes, to |-> << >>, toml |-> parsed]

\* the file system that holds the entries: a set of <<path, node>> pairs
MakeFs(entries) ==
    [ p \in { e[1] : e \in entries } |-> (CHOOSE e \in entries : e[1] = p)[2] ]

\* the text of an absolute path given by its names
PathText(names) == << "/" >> \o JoinWith(names, "/")

RECURSIVE Resolve(_, _, _, _)
\* realpath(3): `at` is the resolved directory or file reached so far, `rest`
\* the components still to walk; fuel bounds the symbolic links followed
\* (ELOOP).
Resolve(f, at, rest, fuel) ==
    IF rest = << >> THEN Some(at)
    ELSE IF f[at].kind # "dir" THEN Failed                       \* ENOTDIR
    ELSE LET c == Head(rest)
             next == at \o << c >>
         IN  IF c = << >> \/ c = << "." >> THEN Resolve(f, at, Tail(rest), fuel)
             ELSE IF c = << ".", "." >>
                  THEN Resolve(f, IF at = << >> THEN at ELSE SubSeq(at, 1, Len(at) - 1),
                               Tail(rest), fuel)
             ELSE IF next \notin DOMAIN f THEN Failed             \* ENOENT
             ELSE IF f[next].kind = "link"
                  THEN IF fuel = 0 THEN Failed                    \* ELOOP
                       ELSE Resolve(f, << >>, f[next].to \o Tail(rest), fuel - 1)
             ELSE Resolve(f, next, Tail(rest), fuel)

\* the symbolic links one resolution may follow
MaxLinks == 4

\* Path::canonicalize of an absolute path text: Some(the names of the resolved
\* location), or Failed.
Canonicalize(f, text) == Resolve(f, << >>, SplitOn(text, "/"), MaxLinks)

\* Path::join (PathBuf::push): an absolute `path` replaces the base.
Join(base, path) ==
    IF StartsWith(path, << "/" >>) THEN path
    ELSE IF base = << >> \/ EndsWith(base, << "/" >>) THEN base \o path
    ELSE base \o << "/" >> \o path

\* std::fs::read: the bytes of the regular file at a canonical location
\* a read that loses the bytes of the file
ReadFileTruncated(f, names) ==
    IF names \in DOMAIN f /\ f[names].kind = "file" THEN Some(<< >>)
    ELSE None

ReadFile(f, names) ==
    IF names \in DOMAIN f /\ f[names].kind = "file" THEN Some(f[names].contents)
    ELSE None

-----------------------------------------------------------------------------
(* Metadata *)

\* the file name of a path text: what follows its last separator
FileNameOf(text) == SubSeq(text, LastIndexOf(text, "/") + 1, Len(text))

\* Path::extension of the file name: what follows its last dot, unless the
\* name has none or only starts with one
Extension(text) ==
    LET name == FileNameOf(text)
        i == LastIndexOf(name, ".")
    IN  IF i <= 1 THEN << >> ELSE SubSeq(name, i + 1, Len(name))

\* mime: mime_guess::from_path(path).first_or_octet_stream(), for the
\* extensions the codecs tell apart
mime(text) ==
    LET ext == Extension(text)
    IN  IF ext = << "p", "n", "g" >> THEN "image/png"
        ELSE IF ext = << "j", "p", "g" >> THEN "image/jpeg"
        ELSE "application/octet-stream"

\* last_modified: std::fs::metadata(absolute_path).expect(..), then the
\* modification time (or, without one, the current time) as seconds in text.
\* Failed is the panic of expect, when there is nothing at absolute_path.
last_modified(f, absolute_path) ==
    IF Canonicalize(f, absolute_path) = Failed THEN Failed ELSE Some(<< "0" >>)

\* MiniCdnFile
MiniCdnFile(m, bytes, br, gz, wp) ==
    [ mime |-> m, contents |-> bytes,
      contents_brotli |-> br, contents_gzip |-> gz, contents_webp |-> wp ]

-----------------------------------------------------------------------------
(* FilesystemMiniCdn *)

\* FilesystemMiniCdn::get, were the containment test left out
FsGetUnguarded(f, root_path, path) ==
    IF EndsWith(path, CONFIG_SUFFIX) THEN None
    ELSE LET canonical == Canonicalize(f, Join(root_path, path))
             canonical_root == Canonicalize(f, root_path)
         IN  IF canonical = Failed THEN None
             ELSE IF canonical_root = Failed THEN None
             ELSE LET contents == ReadFile(f, canonical[1])
                  IN  IF contents = None THEN None
                      ELSE Some(MiniCdnFile(mime(PathText(canonical[1])), contents[1],
                                            None, None, None))

\* FilesystemMiniCdn::get, were a path that ends with CONFIG_SUFFIX not refused
FsGetDescriptors(f, root_path, path) ==
    LET canonical == Canonicalize(f, Join(root_path, path))
        canonical_root == Canonicalize(f, root_path)
    IN  IF canonical = Failed \/ canonical_root = Failed THEN None
        ELSE IF ~StartsWith(PathText(canonical[1]), PathText(canonical_root[1]))
        THEN None
        ELSE LET contents == ReadFile(f, canonical[1])
             IN  IF contents = Failed THEN None
                 ELSE Some(MiniCdnFile(mime(PathText(canonical[1])), contents[1],
                                       None, None, None))

\* FilesystemMiniCdn::get
FsGet(f, root_path, path) ==
    IF EndsWith(path, CONFIG_SUFFIX) THEN None
    ELSE LET canonical == Canonicalize(f, Join(root_path, path))
             canonical_root == Canonicalize(f, root_path)
         IN  IF canonical = Failed THEN None
             ELSE IF canonical_root = Failed THEN None
             ELSE IF ~StartsWith(PathText(canonical[1]), PathText(canonical_root[1]))
                  THEN None
             ELSE LET contents == ReadFile(f, canonical[1])
                  IN  IF contents = None THEN None
                      ELSE Some(MiniCdnFile(mime(PathText(canonical[1])), contents[1],
                                            None, None, None))

-----------------------------------------------------------------------------
(* get_paths *)

\* prioritize: real is false for a name that ends with CONFIG_SUFFIX
Priority(name) == [real |-> ~EndsWith(name, CONFIG_SUFFIX), file_name |-> name]

\* an order on file_name alone
PriorityLessByName(a, b) == TextLess(a.file_name, b.file_name)

\* the derived Ord of Priority: real first (false < true), then file_name
PriorityLess(a, b) ==
    \/ ~a.real /\ b.real
    \/ a.real = b.real /\ TextLess(a.file_name, b.file_name)

RECURSIVE SortNames(_)
\* the names of one directory in the order sort_by gives them
SortNames(S) ==
    IF S = {} THEN << >>
    ELSE LET first == CHOOSE n \in S :
                         \A m \in S \ {n} : PriorityLess(Priority(n), Priority(m))
         IN  << first >> \o SortNames(S \ {first})

\* read_dir: the names in a directory
ChildNames(f, dir) ==
    { p[Len(p)] : p \in { q \in DOMAIN f :
                            /\ Len(q) = Len(dir) + 1
                            /\ SubSeq(q, 1, Len(dir)) = dir } }

RECURSIVE WalkDir(_, _, _, _, _)
\* walkdir::WalkDir with follow_links(true) and sort_by, below one directory:
\* `names` are the directory's entries still to visit, `logical` the names from
\* the root to the directory, `at` its resolved location and `ancestors` the
\* resolved directories on the walk's stack.  Yields the regular files, each with
\* its names below the root and its canonical location; an entry that cannot be
\* followed (a broken link, a link to an ancestor) is an error and is dropped.
WalkDir(f, names, logical, at, ancestors) ==
    IF names = << >> THEN << >>
    ELSE LET n == Head(names)
             target == Resolve(f, at, << n >>, MaxLinks)
             here ==
                 IF target = Failed THEN << >>
                 ELSE IF f[target[1]].kind = "file"
                      THEN << [relative |-> logical \o << n >>, absolute |-> target[1]] >>
                 ELSE IF target[1] \in ancestors THEN << >>
                 ELSE WalkDir(f, SortNames(ChildNames(f, target[1])),
                              logical \o << n >>, target[1], ancestors \cup {target[1]})
         IN  here \o WalkDir(f, Tail(names), logical, at, ancestors)

\* get_paths: the (absolute_path, relative_path) pairs of the regular files
\* under root_path, as texts, in the walk's order
get_paths(f, root_path) ==
    LET top == Canonicalize(f, root_path)
        found == IF top = Failed \/ f[top[1]].kind # "dir" THEN << >>
                 ELSE WalkDir(f, SortNames(ChildNames(f, top[1])), << >>, top[1], {top[1]})
    IN  [ i \in 1..Len(found) |->
            [ absolute_path |-> PathText(found[i].absolute),
              relative_path |-> JoinWith(found[i].relative, "/") ] ]

-----------------------------------------------------------------------------
(* EmbeddedMiniCdn *)

\* EmbeddedMiniCdn::default: no files
EmptyFiles == [ p \in {} |-> None ]

\* EmbeddedMiniCdn::get
EmbGet(files, path) == IF path \in DOMAIN files THEN Some(files[path]) ELSE None

\* EmbeddedMiniCdn::insert
EmbInsert(files, path, file) ==
    [ p \in DOMAIN files \cup {path} |-> IF p = path THEN file ELSE files[p] ]

\* EmbeddedMiniCdn::remove, were nothing removed
EmbRemoveNothing(files, path) == files

\* EmbeddedMiniCdn::remove
EmbRemove(files, path) == [ p \in DOMAIN files \ {path} |-> files[p] ]

RECURSIVE FromFilesystemByAbsolutePath(_, _, _, _)
\* From<&FilesystemMiniCdn>, were each record inserted under the scan's
\* absolute path instead of its relative path
FromFilesystemByAbsolutePath(f, root_path, paths, ret) ==
    IF paths = << >> THEN ret
    ELSE LET file == FsGet(f, root_path, Head(paths).relative_path)
         IN  FromFilesystemByAbsolutePath(f, root_path, Tail(paths),
                 IF file = None THEN ret
                 ELSE EmbInsert(ret, Head(paths).absolute_path, file[1]))

RECURSIVE FromFilesystem(_, _, _, _)
\* impl From<&FilesystemMiniCdn> for EmbeddedMiniCdn, over FilesystemMiniCdn::iter:
\* each scanned relative path whose get is present is inserted with that record
FromFilesystem(f, root_path, paths, ret) ==
    IF paths = << >> THEN ret
    ELSE LET relative == Head(paths).relative_path
             file == FsGet(f, root_path, relative)
         IN  FromFilesystem(f, root_path, Tail(paths),
                            IF file = None THEN ret
                            ELSE EmbInsert(ret, relative, file[1]))

\* EmbeddedMiniCdn::new
EmbeddedNew(f, root_path) ==
    FromFilesystem(f, root_path, get_paths(f, root_path), EmptyFiles)

-----------------------------------------------------------------------------
(* EmbeddedMiniCdn::new_compressed *)

default_brotli_level == 9
default_brotli_buffer_size == 4096
default_brotli_large_window_size == 20
default_gzip_level == 8
default_webp_quality == Some(90)

\* Config
Config(bl, bb, bw, gl, wq) ==
    [ brotli_level |-> bl, brotli_buffer_size |-> bb,
      brotli_large_window_size |-> bw, gzip_level |-> gl, webp_quality |-> wq ]

\* impl Default for Config
ConfigDefault ==
    Config(default_brotli_level, default_brotli_buffer_size,
           default_brotli_large_window_size, default_gzip_level,
           default_webp_quality)

\* A TOML value of the key webp_quality: a string, a float (here one with no
\* fraction, which `as f32` keeps as it is), or an integer.
TomlStr(str) == [type |-> "str", str |-> str, num |-> 0]
TomlNum(num) == [type |-> "num", str |-> "", num |-> num]
TomlInt(num) == [type |-> "int", str |-> "", num |-> num]

\* deserialize_webp_quality: deserialize_any with a visitor that has visit_str
\* and visit_f64 only.  "lossless" is None, a float in 0..100 is Some(float),
\* anything else (an integer included: visit_i64 is the default, an error) is an
\* error.
deserialize_webp_quality(value) ==
    IF value.type = "str"
    THEN IF value.str = "lossless" THEN Some(None) ELSE Failed
    ELSE IF value.type = "num"
    THEN IF 0 <= value.num /\ value.num <= 100 THEN Some(Some(value.num))
         ELSE Failed
    ELSE Failed

\* Deserialize of Config, were every key ignored
ConfigFromTomlIgnored(doc) == Some(ConfigDefault)

\* the derived Deserialize of Config over a TOML document, which gives each
\* key None (omitted) or Some(value): an omitted key takes its default
ConfigFromToml(doc) ==
    LET wq == IF doc.webp_quality = None THEN Some(default_webp_quality)
              ELSE deserialize_webp_quality(doc.webp_quality[1])
    IN  IF wq = Failed THEN Failed
        ELSE Some(Config(
               IF doc.brotli_level = None THEN default_brotli_level
               ELSE doc.brotli_level[1],
               IF doc.brotli_buffer_size = None THEN default_brotli_buffer_size
               ELSE doc.brotli_buffer_size[1],
               IF doc.brotli_large_window_size = None
               THEN default_brotli_large_window_size
               ELSE doc.brotli_large_window_size[1],
               IF doc.gzip_level = None THEN default_gzip_level
               ELSE doc.gzip_level[1],
               wq[1]))

\* toml::from_slice::<Config>(contents) of the file at a canonical location
ParseConfig(f, names) ==
    IF f[names].toml = Failed THEN Failed ELSE ConfigFromToml(f[names].toml[1])

\* The width of usize.  The codecs compute `len * 10` in usize: the product
\* wraps (or, with overflow checks, panics) once len exceeds usize::MAX / 10,
\* which is 429_496_729 bytes where usize has 32 bits.  The width is scaled down
\* here so that the sizes of the threshold specification pass usize::MAX / 10.
UsizeBits == 8
UsizeMax == 2 ^ UsizeBits - 1

\* usize arithmetic without overflow checks: the value modulo 2^UsizeBits
Usize(n) == n % (2 ^ UsizeBits)

\* brotli: `output` is what the compressor wrote
brotli(contents, buffer_size, quality, lgwin, output) ==
    IF Usize(Len(output) * 10) \div 9 < Len(contents) THEN Some(output) ELSE None

\* gzip: `vec` is what the encoder returned
gzip(contents, level, vec) ==
    IF Usize(Len(vec) * 10) \div 9 < Len(contents) THEN Some(vec) ELSE None

\* webp: `decoded` tells whether reader.decode() succeeded and `webp_image` is
\* what the encoder returned
webp(contents, mime_essence, quality, decoded, webp_image) ==
    IF mime_essence \notin {"image/png", "image/jpeg"} THEN None
    ELSE IF ~decoded THEN None
    ELSE IF Usize(Len(webp_image) * 10) \div 9 < Len(contents) THEN Some(webp_image)
    ELSE None

\* special, were it never set
specialNever(contents_webp) == FALSE

\* let special = contents_webp.is_some()
special(contents_webp) == contents_webp # None

\* the key an asset looks its config up by: relative_path before its first `.`
\* (split_once), or all of it when it has none
ConfigKey(relative_path) ==
    LET i == IndexOf(relative_path, ".")
    IN  IF i = 0 THEN relative_path ELSE SubSeq(relative_path, 1, i - 1)

\* str::strip_suffix(CONFIG_SUFFIX) of a text that ends with it
StripConfigSuffix(relative_path) ==
    SubSeq(relative_path, 1, Len(relative_path) - Len(CONFIG_SUFFIX))

\* HashMap::<String, Config>::new()
EmptyConfigs == [ k \in {} |-> ConfigDefault ]

\* HashMap::insert
ConfigsInsert(configs, name, config) ==
    [ k \in DOMAIN configs \cup {name} |-> IF k = name THEN config ELSE configs[k] ]

\* HashMap::remove, the map it leaves
ConfigsRemove(configs, key) == [ k \in DOMAIN configs \ {key} |-> configs[k] ]

\* The locals of new_compressed while get_paths(root_path).for_each runs:
\*   paths    what the iterator has still to yield (order: all it yields)
\*   configs  the parsed descriptors not yet taken by an asset
\*   ret      the store being built
\*   panic    None, or Some(the panic: the failed expect or assertion)
\* and, as a record of what happened,
\*   parsed   the relative paths of the descriptors parsed so far
\*   log      for each asset processed: the config it was compressed with, the
\*            descriptor key it took (None when it took the default) and what
\*            each codec that was run returned
Idle ==
    [ pc |-> "idle", order |-> << >>, paths |-> << >>, configs |-> EmptyConfigs,
      ret |-> EmptyFiles, panic |-> None, parsed |-> {},
      log |-> [ a \in {} |-> None ] ]

\* let mut ret = Self::default(); let mut configs = HashMap::new(); get_paths(..)
WalkBegin(f, root_path) ==
    LET paths == get_paths(f, root_path)
    IN  [ Idle EXCEPT !.pc = "walking", !.order = paths, !.paths = paths ]

Panic(w, kind, names) ==
    [ w EXCEPT !.pc = "panicked", !.panic = Some([kind |-> kind, names |-> names]) ]

\* The closure body for a path that ends with CONFIG_SUFFIX: parse the
\* descriptor and insert it under its name.
WalkDescriptor(w, f) ==
    LET entry == Head(w.paths)
        relative_path == entry.relative_path
        name == StripConfigSuffix(relative_path)
        config == ParseConfig(f, Canonicalize(f, entry.absolute_path)[1])
    IN  IF config = Failed THEN Panic(w, "expect", {relative_path})
        ELSE [ w EXCEPT !.paths = Tail(w.paths),
                        !.configs = ConfigsInsert(w.configs, name, config[1]),
                        !.parsed = w.parsed \cup {relative_path} ]

\* The closure body for any other path: take the config, run the codecs, insert
\* the record.  `o` is what the external codecs return for this asset.
WalkAsset(w, f, o) ==
    LET entry == Head(w.paths)
        relative_path == entry.relative_path
        contents == ReadFile(f, Canonicalize(f, entry.absolute_path)[1])[1]
        m == mime(relative_path)
        key == ConfigKey(relative_path)
        taken == key \in DOMAIN w.configs
        config == IF taken THEN w.configs[key] ELSE ConfigDefault
        contents_webp == webp(contents, m, config.webp_quality, o.decodes, o.webp)
        contents_gzip ==
            IF special(contents_webp) THEN None
            ELSE gzip(contents, config.gzip_level, o.gzip)
        contents_brotli ==
            IF special(contents_webp) THEN None
            ELSE brotli(contents, config.brotli_buffer_size, config.brotli_level,
                        config.brotli_large_window_size, o.brotli)
        entry_log ==
            [ config |-> config,
              took |-> IF taken THEN Some(key) ELSE None,
              webp |-> IF m \in {"image/png", "image/jpeg"} /\ o.decodes
                       THEN Some(o.webp) ELSE None,
              gzip |-> IF special(contents_webp) THEN None ELSE Some(o.gzip),
              brotli |-> IF special(contents_webp) THEN None ELSE Some(o.brotli) ]
    IN  [ w EXCEPT
            !.paths = Tail(w.paths),
            !.configs = ConfigsRemove(w.configs, key),
            !.ret = EmbInsert(w.ret, relative_path,
                              MiniCdnFile(m, contents, contents_brotli,
                                          contents_gzip, contents_webp)),
            !.log = [ a \in DOMAIN w.log \cup {relative_path} |->
                        IF a = relative_path THEN entry_log ELSE w.log[a] ] ]

\* the end of new_compressed without its assertion
WalkEndUnchecked(w) == [ w EXCEPT !.pc = "returned" ]

\* assert!(configs.is_empty(), "unused minicdn config files: {:?}", configs.keys())
WalkEnd(w) ==
    IF DOMAIN w.configs = {} THEN [ w EXCEPT !.pc = "returned" ]
    ELSE Panic(w, "unused", DOMAIN w.configs)

-----------------------------------------------------------------------------
(* MiniCdn *)

Unbuilt == [mode |-> "Unbuilt", root_path |-> << >>, files |-> EmptyFiles]
\* the constructor panicked: there is no store
Panicked == [mode |-> "Panicked", root_path |-> << >>, files |-> EmptyFiles]
Filesystem(root_path) ==
    [mode |-> "Filesystem", root_path |-> root_path, files |-> EmptyFiles]
Embedded(files) == [mode |-> "Embedded", root_path |-> << >>, files |-> files]

\* MiniCdn::get
MiniCdnGet(f, c, path) ==
    IF c.mode = "Embedded" THEN EmbGet(c.files, path)
    ELSE FsGet(f, c.root_path, path)


RECURSIVE FsIterBackwards(_, _, _)
\* FilesystemMiniCdn::iter, were the scan taken from its end
FsIterBackwards(f, root_path, paths) ==
    IF paths = << >> THEN << >>
    ELSE LET relative == paths[Len(paths)].relative_path
             file == FsGet(f, root_path, relative)
         IN  (IF file = None THEN << >>
              ELSE << [path |-> relative, file |-> file[1]] >>)
             \o FsIterBackwards(f, root_path, SubSeq(paths, 1, Len(paths) - 1))

RECURSIVE FsIter(_, _, _)
\* FilesystemMiniCdn::iter: get_paths(..).filter_map(..), one get per scanned
\* path, those that are absent dropped
FsIter(f, root_path, paths) ==
    IF paths = << >> THEN << >>
    ELSE LET relative == Head(paths).relative_path
             file == FsGet(f, root_path, relative)
         IN  (IF file = None THEN << >>
              ELSE << [path |-> relative, file |-> file[1]] >>)
             \o FsIter(f, root_path, Tail(paths))

\* MiniCdn::insert, were a Filesystem store left as it is
MiniCdnInsertLazy(f, c, path, file) ==
    IF c.mode = "Embedded" THEN Embedded(EmbInsert(c.files, path, file)) ELSE c

\* MiniCdn::insert, were a Filesystem store replaced by an empty Embedded one
MiniCdnInsertFresh(f, c, path, file) ==
    Embedded(EmbInsert(IF c.mode = "Embedded" THEN c.files ELSE EmptyFiles,
                       path, file))

\* MiniCdn::insert: an Embedded store inserts; a Filesystem store is first
\* replaced by the Embedded store made from it
MiniCdnInsert(f, c, path, file) ==
    IF c.mode = "Embedded" THEN Embedded(EmbInsert(c.files, path, file))
    ELSE Embedded(EmbInsert(
             FromFilesystem(f, c.root_path, get_paths(f, c.root_path), EmptyFiles),
             path, file))

\* the orders HashMap::iter may yield the keys in
IterOrders(files) ==
    { order \in [1..Cardinality(DOMAIN files) -> DOMAIN files] :
        \A i, j \in DOMAIN order : order[i] = order[j] => i = j }

\* MiniCdn::for_each: the visitor's calls, in order.  `order` is the order
\* HashMap::iter yields an Embedded store's keys in.
MiniCdnForEach(f, c, order) ==
    IF c.mode = "Embedded"
    THEN [ i \in DOMAIN order |-> [path |-> order[i], file |-> c.files[order[i]]] ]
    ELSE FsIter(f, c.root_path, get_paths(f, c.root_path))

-----------------------------------------------------------------------------
(* The trees and the requests of the path-resolution specification *)

\* the contents files under the root are drawn from: Bytes(1) .. Bytes(MaxData)
MaxData == 2

\* the segments a requested path may have
MaxSegments == 3

Bytes(i) == [ k \in 1..(2 * i) |-> i ]
OutsideBytes == << 0 >>

nA == << "a" >>
nL == << "l" >>
nT == << "t" >>
nT2 == << "t", "2" >>
nZ == << "z" >>

\* the root every store of this specification is built from: /t
RootText == PathText(<< nT >>)

\* Always there: the root /t, a file /a outside it, and a sibling directory /t2
\* (whose text starts with the root's) holding a file.
BaseEntries ==
    { << << >>, Dir >>, << << nT >>, Dir >>, << << nA >>, File(OutsideBytes) >>,
      << << nT2 >>, Dir >>, << << nT2, nA >>, File(OutsideBytes) >> }

\* /t/a: absent, or a file
OptionsA == {{}} \cup { {<< << nT, nA >>, File(Bytes(i)) >>} : i \in 1..MaxData }

\* /t/t: absent, or a directory holding the file /t/t/a
OptionsT ==
    { {}, {<< << nT, nT >>, Dir >>, << << nT, nT, nA >>, File(Bytes(1)) >>} }

\* /t/l: absent, or a symbolic link to a file or directory outside the root, to
\* a file inside it, to the root itself, or to nothing
LinkTargets ==
    { << nA >>, << nT2 >>, << nT2, nA >>, << nT, nA >>, << nT >>, << nZ >> }
OptionsL == {{}} \cup { {<< << nT, nL >>, Link(to) >>} : to \in LinkTargets }

ResolutionTrees ==
    { MakeFs(BaseEntries \cup a \cup t \cup l) :
        a \in OptionsA, t \in OptionsT, l \in OptionsL }

Segments == { << ".", "." >>, << "." >>, nA, nT, nT2, nL }

\* the requested paths: one to MaxSegments segments, with or without a leading `/`
Requests ==
    UNION { { (IF abs THEN << "/" >> ELSE << >>) \o JoinWith(segs, "/") :
                segs \in [1..n -> Segments], abs \in BOOLEAN } : n \in 1..MaxSegments }

\* `store` is the MiniCdn the call was made on, as it was before the call
NoCall == [op |-> "none", path |-> << >>, result |-> None, store |-> Unbuilt]
NoSizes == [encoded |-> 0, original |-> 0]

\* no FilesystemMiniCdn::get is in progress.  Of one in progress: where it is,
\* its path argument, canonical_path, contents, and the file system as it was
\* when std::fs::read returned.
NoGet ==
    [ pc |-> "idle", path |-> << >>, canonical |-> << >>, contents |-> << >>,
      seen |-> << >> ]

\* What a codec writes: bytes of which only the count matters.
Output(n) == [ k \in 1..n |-> 255 ]

\* The external codecs as deterministic encoders, each either halving its input
\* or not shrinking it; decodes tells whether the image reader accepts the bytes.
Encoders == [ decodes : BOOLEAN, webp : BOOLEAN, gzip : BOOLEAN, brotli : BOOLEAN ]

Encode(halves, contents) ==
    IF halves THEN Output(Len(contents) \div 2) ELSE Output(Len(contents))

RECURSIVE new_compressed_run(_, _, _)
\* get_paths(root_path).for_each(..) to its end, and the assertion after it
new_compressed_run(w, f, encoder) ==
    IF w.pc # "walking" THEN w
    ELSE IF w.paths = << >> THEN WalkEnd(w)
    ELSE IF EndsWith(Head(w.paths).relative_path, CONFIG_SUFFIX)
         THEN new_compressed_run(WalkDescriptor(w, f), f, encoder)
    ELSE LET contents ==
                 ReadFile(f, Canonicalize(f, Head(w.paths).absolute_path)[1])[1]
         IN  new_compressed_run(
                 WalkAsset(w, f, [ decodes |-> encoder.decodes,
                                   webp |-> Encode(encoder.webp, contents),
                                   gzip |-> Encode(encoder.gzip, contents),
                                   brotli |-> Encode(encoder.brotli, contents) ]),
                 f, encoder)

\* EmbeddedMiniCdn::new_compressed
new_compressed(f, root_path, encoder) ==
    new_compressed_run(WalkBegin(f, root_path), f, encoder)

-----------------------------------------------------------------------------
(* The path-resolution specification: a store is built from the root by one of *)
(* the constructors and then read.                                             *)

Init ==
    /\ fs \in ResolutionTrees
    /\ root = RootText
    /\ cdn = Unbuilt
    /\ last = NoCall
    /\ walk = Idle
    /\ sizes = NoSizes
    /\ call = NoGet

\* MiniCdn::new_filesystem_from_path
NewFilesystemFromPath ==
    /\ cdn.mode = "Unbuilt"
    /\ cdn' = Filesystem(root)
    /\ UNCHANGED << fs, root, last, walk, sizes, call >>

\* MiniCdn::new_embedded_from_path
NewEmbeddedFromPath ==
    /\ cdn.mode = "Unbuilt"
    /\ cdn' = Embedded(EmbeddedNew(fs, root))
    /\ UNCHANGED << fs, root, last, walk, sizes, call >>

\* MiniCdn::new_compressed_from_path
NewCompressedFromPath ==
    /\ cdn.mode = "Unbuilt"
    /\ \E encoder \in Encoders :
          LET w == new_compressed(fs, root, encoder)
          IN  cdn' = IF w.pc = "returned" THEN Embedded(w.ret) ELSE Panicked
    /\ UNCHANGED << fs, root, last, walk, sizes, call >>

\* MiniCdn::get(path)
Get(path) ==
    /\ cdn.mode \in {"Filesystem", "Embedded"}
    /\ last' = [op |-> "get", path |-> path, result |-> MiniCdnGet(fs, cdn, path),
                store |-> cdn]
    /\ UNCHANGED << fs, root, cdn, walk, sizes, call >>

\* A caller looks one of the requested paths up.  A lookup changes neither the
\* store nor the tree, so a second lookup would start from the same store: a
\* behaviour records one.
Lookup ==
    /\ last.op = "none"
    /\ cdn.mode \in {"Filesystem", "Embedded"}
    /\ \E path \in Requests : Get(path)

Next ==
    \/ NewFilesystemFromPath
    \/ NewEmbeddedFromPath
    \/ NewCompressedFromPath
    \/ Lookup

Spec == Init /\ [][Next]_vars

-----------------------------------------------------------------------------
(* The trees of the compression specification: descriptors and assets *)

\* the files a tree holds under the root, at most
MaxFiles == 3

nD == << "d" >>
nV1 == << "v", ".", "1" >>
nXd == << "x", ".", "d" >>
nF == << "f" >>
nBpng == << "b", ".", "p", "n", "g" >>
nXpng == << "x", ".", "p", "n", "g" >>
nXjpg == << "x", ".", "j", "p", "g" >>
nXtargz == << "x", ".", "t", "a", "r", ".", "g", "z" >>
nAcfg == << "a" >> \o CONFIG_SUFFIX
nBcfg == << "b" >> \o CONFIG_SUFFIX
nXcfg == << "x" >> \o CONFIG_SUFFIX
nXtarcfg == << "x", ".", "t", "a", "r" >> \o CONFIG_SUFFIX

\* TOML documents: every key omitted, and two keys given
TomlDocument(bl, bb, bw, gl, wq) ==
    [ brotli_level |-> bl, brotli_buffer_size |-> bb,
      brotli_large_window_size |-> bw, gzip_level |-> gl, webp_quality |-> wq ]
EmptyDocument == TomlDocument(None, None, None, None, None)
TunedDocument ==
    TomlDocument(None, None, None, Some(1), Some(TomlStr("lossless")))
\* brotli_level and a float webp_quality given
QualityDocument ==
    TomlDocument(Some(5), None, None, None, Some(TomlNum(75)))
\* webp_quality given as an integer
IntegerDocument ==
    TomlDocument(None, None, None, None, Some(TomlInt(80)))
DescriptorBytes == << 9 >>

\* The files a tree may hold: the names below the root, and the node.
\*   x.minicdn (well-formed, or not, or with a webp_quality that is not
\*   accepted), x.png, x.jpg, x.tar.gz, x.tar.minicdn,
\*   x.d/f, d/b.minicdn, d/b.png, v.1/a.minicdn, v.1/a
Candidates ==
    { << << nXcfg >>, Descriptor(DescriptorBytes, Some(EmptyDocument)) >>,
      << << nXcfg >>, Descriptor(DescriptorBytes, Some(TunedDocument)) >>,
      << << nXcfg >>, Descriptor(DescriptorBytes, Failed) >>,
      << << nXcfg >>, Descriptor(DescriptorBytes, Some(IntegerDocument)) >>,
      << << nXpng >>, File(Bytes(1)) >>,
      << << nXjpg >>, File(Bytes(1)) >>,
      << << nXtargz >>, File(Bytes(1)) >>,
      << << nXtarcfg >>, Descriptor(DescriptorBytes, Some(TunedDocument)) >>,
      << << nXd, nF >>, File(Bytes(1)) >>,
      << << nD, nBcfg >>, Descriptor(DescriptorBytes, Some(QualityDocument)) >>,
      << << nD, nBpng >>, File(Bytes(1)) >>,
      << << nV1, nAcfg >>, Descriptor(DescriptorBytes, Some(TunedDocument)) >>,
      << << nV1, nA >>, File(Bytes(1)) >> }

\* the tree that holds the chosen files below the root /t, and their directories
TreeOf(chosen) ==
    MakeFs({ << << >>, Dir >>, << << nT >>, Dir >> }
           \cup { << << nT >> \o c[1], c[2] >> : c \in chosen }
           \cup { << << nT, c[1][1] >>, Dir >> : c \in { d \in chosen : Len(d[1]) = 2 } })

DescriptorTrees ==
    { TreeOf(chosen) :
        chosen \in { S \in SUBSET Candidates :
                       /\ Cardinality(S) <= MaxFiles
                       /\ \A c, d \in S : c[1] = d[1] => c = d } }

\* What a codec may write for an asset (of Len(Bytes(1)) = 2 bytes): an output
\* that passes the threshold test, and one that does not.
Outputs == { Output(1), Output(2) }

\* what the codecs may return for one asset
Outcomes == [ decodes : BOOLEAN, webp : Outputs, gzip : Outputs, brotli : Outputs ]

-----------------------------------------------------------------------------
(* The compression specification: new_compressed_from_path, one path of the   *)
(* walk at a time.                                                            *)

InitCompressed ==
    /\ fs \in DescriptorTrees
    /\ root = RootText
    /\ cdn = Unbuilt
    /\ last = NoCall
    /\ walk = Idle
    /\ sizes = NoSizes
    /\ call = NoGet

\* new_compressed is entered: the locals are set up and the scan starts
BeginCompressed ==
    /\ cdn.mode = "Unbuilt"
    /\ walk.pc = "idle"
    /\ walk' = WalkBegin(fs, root)
    /\ UNCHANGED << fs, root, cdn, last, sizes, call >>

\* the closure runs for a descriptor
StepDescriptor ==
    /\ walk.pc = "walking"
    /\ walk.paths # << >>
    /\ EndsWith(Head(walk.paths).relative_path, CONFIG_SUFFIX)
    /\ walk' = WalkDescriptor(walk, fs)
    /\ cdn' = IF walk'.pc = "panicked" THEN Panicked ELSE cdn
    /\ UNCHANGED << fs, root, last, sizes, call >>

\* the closure runs for an asset
StepAsset ==
    /\ walk.pc = "walking"
    /\ walk.paths # << >>
    /\ ~EndsWith(Head(walk.paths).relative_path, CONFIG_SUFFIX)
    /\ \E o \in Outcomes : walk' = WalkAsset(walk, fs, o)
    /\ UNCHANGED << fs, root, cdn, last, sizes, call >>

\* the scan is over: the assertion, and the store is returned
EndCompressed ==
    /\ walk.pc = "walking"
    /\ walk.paths = << >>
    /\ walk' = WalkEnd(walk)
    /\ cdn' = IF walk'.pc = "returned" THEN Embedded(walk'.ret) ELSE Panicked
    /\ UNCHANGED << fs, root, last, sizes, call >>

NextCompressed ==
    \/ BeginCompressed
    \/ StepDescriptor
    \/ StepAsset
    \/ EndCompressed

SpecCompressed == InitCompressed /\ [][NextCompressed]_vars

-----------------------------------------------------------------------------
(* The threshold specification: each codec's keep-or-discard test on every     *)
(* pair of sizes.                                                              *)

\* the sizes, at most: past usize::MAX / 10
MaxSize == 30

InitThreshold ==
    /\ fs = MakeFs({ << << >>, Dir >> })
    /\ root = << "/" >>
    /\ cdn = Unbuilt
    /\ last = NoCall
    /\ walk = Idle
    /\ sizes \in [ encoded : 0..MaxSize, original : 0..MaxSize ]
    /\ call = NoGet

Original == [ k \in 1..sizes.original |-> 0 ]

\* `len * 10` with overflow checks on (a debug build): a panic when the product
\* exceeds usize::MAX
MulOverflows(len) == len * 10 > UsizeMax

\* What one codec's test leaves behind: its result, or, in a build with
\* overflow checks, the panic of `len * 10`.
Tested(codec, overflow_checks, result) ==
    IF overflow_checks /\ MulOverflows(sizes.encoded)
    THEN [ op |-> "panic", path |-> codec, result |-> None, store |-> cdn ]
    ELSE [ op |-> "tested", path |-> codec, result |-> result, store |-> cdn ]

BrotliTest ==
    /\ last.op = "none"
    /\ \E overflow_checks \in BOOLEAN :
          last' = Tested(<< "brotli" >>, overflow_checks,
                         brotli(Original, default_brotli_buffer_size,
                                default_brotli_level,
                                default_brotli_large_window_size,
                                Output(sizes.encoded)))
    /\ UNCHANGED << fs, root, cdn, walk, sizes, call >>

GzipTest ==
    /\ last.op = "none"
    /\ \E overflow_checks \in BOOLEAN :
          last' = Tested(<< "gzip" >>, overflow_checks,
                         gzip(Original, default_gzip_level, Output(sizes.encoded)))
    /\ UNCHANGED << fs, root, cdn, walk, sizes, call >>

WebpTest ==
    /\ last.op = "none"
    /\ \E overflow_checks \in BOOLEAN :
          last' = Tested(<< "webp" >>, overflow_checks,
                         webp(Original, "image/png", default_webp_quality,
                              TRUE, Output(sizes.encoded)))
    /\ UNCHANGED << fs, root, cdn, walk, sizes, call >>

NextThreshold ==
    \/ BrotliTest
    \/ GzipTest
    \/ WebpTest

SpecThreshold == InitThreshold /\ [][NextThreshold]_vars

-----------------------------------------------------------------------------
(* The store specification: a MiniCdn built from the root, then read,        *)
(* iterated and changed by its callers over an unchanging tree.               *)

nN == << "n" >>

\* /t/a.minicdn: absent, or a descriptor
OptionsC ==
    { {}, {<< << nT, nAcfg >>, Descriptor(DescriptorBytes, Some(EmptyDocument)) >>} }

StoreTrees ==
    { MakeFs(BaseEntries \cup a \cup c \cup l) :
        a \in OptionsA, c \in OptionsC, l \in OptionsL }

\* the paths callers get, insert and remove: a file of the tree, the link, a
\* path the tree does not have, and a path that ends with CONFIG_SUFFIX
StorePaths == { nA, nL, nN, nAcfg }

\* the records callers insert
Records ==
    { MiniCdnFile("text/plain", << 7 >>, None, None, None),
      MiniCdnFile("text/plain", << 8 >>, Some(<< 255 >>), None, None) }

\* what new_compressed returns for the tree, when it returns
CompressedStores ==
    { w \in { new_compressed(fs, root, encoder) : encoder \in Encoders } :
        w.pc = "returned" }

InitStore ==
    /\ fs \in StoreTrees
    /\ root = RootText
    /\ cdn \in { Filesystem(root), Embedded(EmbeddedNew(fs, root)) }
                \cup { Embedded(w.ret) : w \in CompressedStores }
    /\ last = NoCall
    /\ walk = Idle
    /\ sizes = NoSizes
    /\ call = NoGet

\* MiniCdn::get
StoreGet ==
    \E path \in StorePaths :
        /\ last' = [op |-> "get", path |-> path,
                    result |-> MiniCdnGet(fs, cdn, path), store |-> cdn]
        /\ UNCHANGED << fs, root, cdn, walk, sizes, call >>

\* MiniCdn::insert
StoreInsert ==
    \E path \in StorePaths \ {nL} : \E file \in Records :
        /\ cdn' = MiniCdnInsert(fs, cdn, path, file)
        /\ last' = [op |-> "insert", path |-> path, result |-> Some(file),
                    store |-> cdn]
        /\ UNCHANGED << fs, root, walk, sizes, call >>

\* EmbeddedMiniCdn::remove, on the store inside MiniCdn::Embedded
StoreRemove ==
    /\ cdn.mode = "Embedded"
    /\ \E path \in StorePaths \ {nL} :
          /\ cdn' = Embedded(EmbRemove(cdn.files, path))
          /\ last' = [op |-> "remove", path |-> path, result |-> None,
                      store |-> cdn]
    /\ UNCHANGED << fs, root, walk, sizes, call >>

\* MiniCdn::for_each with a visitor that records its calls
StoreForEach ==
    /\ \E order \in IterOrders(cdn.files) :
          last' = [op |-> "for_each", path |-> << >>,
                   result |-> MiniCdnForEach(fs, cdn, order), store |-> cdn]
    /\ UNCHANGED << fs, root, cdn, walk, sizes, call >>

NextStore ==
    \/ StoreGet
    \/ StoreInsert
    \/ StoreRemove
    \/ StoreForEach

SpecStore == InitStore /\ [][NextStore]_vars

-----------------------------------------------------------------------------
(* The lazy specification: a store on a tree that other processes change,     *)
(* FilesystemMiniCdn::get taken one system call at a time.                    *)

\* what another process writes to a file: bytes no file starts with
Rewritten == << 5 >>

\* the tree at the start: the file /t/a, and /t/l absent or a link to it or to
\* the file /a outside the root
LazyTrees ==
    { MakeFs(BaseEntries \cup {<< << nT, nA >>, File(Bytes(i)) >>} \cup l) :
        i \in 1..MaxData,
        l \in { {}, {<< << nT, nL >>, Link(<< nT, nA >>) >>},
                    {<< << nT, nL >>, Link(<< nA >>) >>} } }

LazyPaths == { nA, nL, nN, nAcfg }

InitLazy ==
    /\ fs \in LazyTrees
    /\ root = RootText
    /\ cdn \in { Filesystem(root), Embedded(EmbeddedNew(fs, root)) }
    /\ last = NoCall
    /\ walk = Idle
    /\ sizes = NoSizes
    /\ call = NoGet

\* get returns: the call is over
Returned(path, result) ==
    /\ last' = [op |-> "get", path |-> path, result |-> result, store |-> cdn]
    /\ call' = [ call EXCEPT !.pc = "idle" ]

\* FilesystemMiniCdn::get up to the containment test: the suffix test, the two
\* canonicalize calls and starts_with
LazyGetResolve ==
    /\ cdn.mode = "Filesystem"
    /\ call.pc = "idle"
    /\ \E path \in LazyPaths :
          LET canonical == Canonicalize(fs, Join(cdn.root_path, path))
              canonical_root == Canonicalize(fs, cdn.root_path)
          IN  IF \/ EndsWith(path, CONFIG_SUFFIX)
                 \/ canonical = Failed
                 \/ canonical_root = Failed
                 \/ ~StartsWith(PathText(canonical[1]), PathText(canonical_root[1]))
              THEN /\ last' = [op |-> "get", path |-> path, result |-> None,
                               store |-> cdn]
                   /\ call' = [ NoGet EXCEPT !.path = path ]
              ELSE /\ call' = [ NoGet EXCEPT !.pc = "read", !.path = path,
                                             !.canonical = canonical[1] ]
                   /\ last' = last
    /\ UNCHANGED << fs, root, cdn, walk, sizes >>

\* std::fs::read(&canonical_path).ok()?
LazyGetRead ==
    /\ call.pc = "read"
    /\ LET contents == ReadFile(fs, call.canonical)
       IN  IF contents = Failed
           THEN Returned(call.path, None)
           ELSE /\ call' = [ call EXCEPT !.pc = "metadata",
                                         !.contents = contents[1], !.seen = fs ]
                /\ last' = last
    /\ UNCHANGED << fs, root, cdn, walk, sizes >>

\* the record is built: mime, etag, last_modified(canonical_path), and no
\* compressed contents.  The panic of last_modified ends the call.
LazyGetMetadata ==
    /\ call.pc = "metadata"
    /\ IF last_modified(fs, PathText(call.canonical)) = Failed
       THEN /\ last' = [op |-> "panic", path |-> call.path, result |-> None,
                        store |-> cdn]
            /\ call' = [ call EXCEPT !.pc = "idle" ]
       ELSE Returned(call.path,
                     Some(MiniCdnFile(mime(PathText(call.canonical)),
                                      call.contents, None, None, None)))
    /\ UNCHANGED << fs, root, cdn, walk, sizes >>

\* EmbeddedMiniCdn::get
LazyGetEmbedded ==
    /\ cdn.mode = "Embedded"
    /\ \E path \in LazyPaths :
          /\ last' = [op |-> "get", path |-> path,
                      result |-> EmbGet(cdn.files, path), store |-> cdn]
          /\ call' = [ NoGet EXCEPT !.path = path ]
    /\ UNCHANGED << fs, root, cdn, walk, sizes >>

\* MiniCdn::insert on the Embedded store (the store of a Filesystem one is
\* materialised first: see the store specification)
LazyInsert ==
    /\ cdn.mode = "Embedded"
    /\ \E path \in { nA, nN }, file \in Records :
          /\ cdn' = MiniCdnInsert(fs, cdn, path, file)
          /\ last' = [op |-> "insert", path |-> path, result |-> Some(file),
                      store |-> cdn]
    /\ UNCHANGED << fs, root, walk, sizes, call >>

\* another process rewrites (or creates) the file /t/a
RewriteFile ==
    /\ fs' = [ q \in DOMAIN fs \cup {<< nT, nA >>} |->
                 IF q = << nT, nA >> THEN File(Rewritten) ELSE fs[q] ]
    /\ fs' # fs
    /\ UNCHANGED << root, cdn, last, walk, sizes, call >>

\* another process removes the file /t/a
RemoveFile ==
    /\ << nT, nA >> \in DOMAIN fs
    /\ fs' = [ q \in DOMAIN fs \ {<< nT, nA >>} |-> fs[q] ]
    /\ UNCHANGED << root, cdn, last, walk, sizes, call >>

NextLazy ==
    \/ LazyGetResolve
    \/ LazyGetRead
    \/ LazyGetMetadata
    \/ LazyGetEmbedded
    \/ LazyInsert
    \/ RewriteFile
    \/ RemoveFile

SpecLazy == InitLazy /\ [][NextLazy]_vars

-----------------------------------------------------------------------------
(* Properties of path resolution (checked under Spec) *)

DotDot == << ".", "." >>

\* the requested path has a `..` segment
HasDotDot(path) == \E i \in 1..Len(SplitOn(path, "/")) : SplitOn(path, "/")[i] = DotDot

\* a normalized logical path: relative, and no segment empty, `.` or `..`
Normalized(path) ==
    /\ path # << >>
    /\ \A i \in 1..Len(SplitOn(path, "/")) :
          SplitOn(path, "/")[i] \notin { << >>, << "." >>, DotDot }

\* the location `names` is the directory `dir` or lies below it
Inside(names, dir) ==
    /\ Len(dir) <= Len(names)
    /\ SubSeq(names, 1, Len(dir)) = dir

\* the location the last lookup's path resolves to when joined to the root as
\* the code joins it
LastLocation == Canonicalize(fs, Join(root, last.path))

\* the location it resolves to when joined below the root whatever it starts with
LastLocationBelowRoot == Canonicalize(fs, root \o << "/" >> \o last.path)

RootLocation == Canonicalize(fs, root)

FsLookup == last.op = "get" /\ cdn.mode = "Filesystem"

\* C1: on a Filesystem store, get(p) is absent whenever the canonical location
\* of the root joined with p is outside the canonical root directory, whether
\* reached through `..` or through a symbolic link (sibling directories of the
\* root included).
C1_NeverServesOutsideRoot ==
    ( /\ FsLookup
      /\ ~StartsWith(last.path, << "/" >>)
      /\ LastLocation # Failed
      /\ ~Inside(LastLocation[1], RootLocation[1]) )
    => last.result = None

\* C2 (as claimed), in the case the claim spells out: a requested path with a
\* `..` segment is absent on a Filesystem store even when its resolution stays
\* inside the root.
C2_DotDotInsideRootAbsent ==
    ( /\ FsLookup
      /\ HasDotDot(last.path)
      /\ SplitOn(last.path, "/")[1] \notin { << >>, DotDot }
      /\ LastLocation # Failed
      /\ Inside(LastLocation[1], RootLocation[1]) )
    => last.result = None

\* C2 (amended): for a requested path with a `..` segment, an Embedded store
\* built from the root by either constructor returns absent; a Filesystem store
\* returns absent when the path resolves to nothing or to a location whose text
\* does not start with the root's text, and returns the file when the path
\* (not a descriptor's) resolves to a regular file inside the root.
C2_DotDotResolved ==
    (last.op = "get" /\ HasDotDot(last.path)) =>
        /\ cdn.mode = "Embedded" => last.result = None
        /\ cdn.mode = "Filesystem" =>
             /\ LastLocation = Failed => last.result = None
             /\ ( /\ LastLocation # Failed
                  /\ ~StartsWith(PathText(LastLocation[1]), PathText(RootLocation[1])) )
                => last.result = None
             /\ ( /\ LastLocation # Failed
                  /\ Inside(LastLocation[1], RootLocation[1])
                  /\ fs[LastLocation[1]].kind = "file"
                  /\ ~EndsWith(last.path, CONFIG_SUFFIX) )
                => /\ last.result # None
                   /\ last.result[1].contents = fs[LastLocation[1]].contents

\* C2 witness: a `..` request that leaves the root for an existing file is
\* refused, and one that stays inside the root is served.
C2_Witness ==
    /\ FsLookup
    /\ HasDotDot(last.path)
    /\ LastLocation # Failed
    /\ fs[LastLocation[1]].kind = "file"
    /\ ~Inside(LastLocation[1], RootLocation[1])
    /\ last.result = None

\* the logical paths stored under the root: those the scan yields and get serves
StoredPaths ==
    { q \in { get_paths(fs, root)[i].relative_path :
                i \in 1..Len(get_paths(fs, root)) } :
        FsGet(fs, root, q) # None }

\* C3: for a file stored at logical path p, get("/" + p) is absent, on a
\* Filesystem store and on an Embedded store.
C3_LeadingSlashAbsent ==
    ( /\ last.op = "get"
      /\ StartsWith(last.path, << "/" >>)
      /\ Tail(last.path) \in StoredPaths )
    => last.result = None

\* C4: in Filesystem get a request that begins with `/` is joined below the
\* root like any other: the file read is the one the request resolves to
\* relative to the root, never the request taken as an absolute path (here, a
\* request that spells out the absolute path of a file under the root).
C4_JoinedBelowRoot ==
    ( /\ FsLookup
      /\ StartsWith(last.path, << "/" >>)
      /\ last.result # None
      /\ Inside(LastLocation[1], RootLocation[1]) )
    => LastLocation = LastLocationBelowRoot

\* the two results are both absent, or both present with the same contents
SameContents(a, b) ==
    /\ (a = None) = (b = None)
    /\ a # None => a[1].contents = b[1].contents

\* C5 (as claimed): for every requested path that does not escape the root,
\* non-normalized spellings included, get on a Filesystem store and get on an
\* Embedded store built from the same root agree.
C5_AgreeInsideRoot ==
    ( /\ FsLookup
      /\ ~StartsWith(last.path, << "/" >>)
      /\ LastLocation # Failed
      /\ Inside(LastLocation[1], RootLocation[1]) )
    => SameContents(last.result, EmbGet(EmbeddedNew(fs, root), last.path))

\* the location the first k segments of a path resolve to below the root
LocationOfPrefix(path, k) ==
    Resolve(fs, RootLocation[1], SubSeq(SplitOn(path, "/"), 1, k), MaxLinks)

\* the path passes through a symbolic link to a directory it is already below
\* (the root included): a link loop, which the scan reports and does not enter
ThroughLoop(path) ==
    \E k \in 1..(Len(SplitOn(path, "/")) - 1) : \E j \in 0..(k - 1) :
        /\ LocationOfPrefix(path, k) # Failed
        /\ LocationOfPrefix(path, k) = LocationOfPrefix(path, j)

\* C5 (amended): for every normalized logical path (relative, no empty, `.` or
\* `..` segment), whatever an Embedded store built from the same root holds, the
\* Filesystem store returns with identical contents; and the two are both absent
\* or both present with identical contents unless the path passes through a
\* link loop, which only the Filesystem store follows.
C5_AgreeOnLogicalPaths ==
    (FsLookup /\ Normalized(last.path)) =>
        LET embedded == EmbGet(EmbeddedNew(fs, root), last.path)
        IN  /\ embedded # None => SameContents(last.result, embedded)
            /\ ~ThroughLoop(last.path) => SameContents(last.result, embedded)

\* C5 witness: a normalized path below a subdirectory that both stores serve.
C5_Witness ==
    /\ FsLookup
    /\ Normalized(last.path)
    /\ Len(SplitOn(last.path, "/")) > 1
    /\ last.result # None
    /\ EmbGet(EmbeddedNew(fs, root), last.path) = last.result

-----------------------------------------------------------------------------
(* Properties of the threshold test (checked under SpecThreshold) *)

\* the spec's formula on the two sizes
SmallerThanNineTenths == sizes.encoded * 10 < sizes.original * 9

\* C6: for every pair (encoded_size, original_size), each of brotli, gzip and
\* webp keeps its encoded payload exactly when encoded_size * 10 <
\* original_size * 9.
C6_KeptExactlyBelowNineTenths ==
    last.op # "none" =>
        /\ last.op = "tested"
        /\ (last.result # None) = SmallerThanNineTenths

\* Where `encoded * 10` fits in usize the truncating test and the formula agree.
ThresholdAgreesBelowOverflow ==
    (last.op # "none" /\ ~MulOverflows(sizes.encoded)) =>
        /\ last.op = "tested"
        /\ (last.result # None) = SmallerThanNineTenths

-----------------------------------------------------------------------------
(* Properties of new_compressed (checked under SpecCompressed) *)

\* an encoded payload of this size is smaller than nine tenths of the contents
BelowNineTenths(encoded, contents) == Len(encoded) * 10 < Len(contents) * 9

\* C7: every record new_compressed puts in the store has no brotli and no gzip
\* payload when it has a WebP payload; and when the WebP attempt produced
\* nothing, gzip and brotli were each run, and each payload is kept exactly when
\* it is itself smaller than nine tenths of the contents, whatever the other did.
C7_WebpExclusive ==
    /\ cdn.mode = "Embedded" => cdn.files = walk.ret
    /\ \A a \in DOMAIN walk.ret :
          LET file == walk.ret[a]
              ran == walk.log[a]
          IN  /\ file.contents_webp # None =>
                    /\ file.contents_brotli = None
                    /\ file.contents_gzip = None
                    /\ ran.gzip = None
                    /\ ran.brotli = None
              /\ file.contents_webp = None =>
                    /\ ran.gzip # None
                    /\ ran.brotli # None
                    /\ file.contents_gzip =
                         IF BelowNineTenths(ran.gzip[1], file.contents)
                         THEN ran.gzip ELSE None
                    /\ file.contents_brotli =
                         IF BelowNineTenths(ran.brotli[1], file.contents)
                         THEN ran.brotli ELSE None

\* C7 witness: a returned store with a record whose WebP payload was kept, and
\* a record without one whose gzip payload was kept and brotli payload was not.
C7_Witness ==
    /\ cdn.mode = "Embedded"
    /\ \E a \in DOMAIN cdn.files : cdn.files[a].contents_webp # None
    /\ \E a \in DOMAIN cdn.files :
          /\ cdn.files[a].contents_webp = None
          /\ cdn.files[a].contents_gzip # None
          /\ cdn.files[a].contents_brotli = None

\* the descriptor keys parsed so far, and those an asset has taken
ParsedKeys == { StripConfigSuffix(d) : d \in walk.parsed }
TakenKeys ==
    { walk.log[a].took[1] : a \in { b \in DOMAIN walk.log : walk.log[b].took # None } }

\* the parsed descriptors no asset has consumed
Orphans == ParsedKeys \ TakenKeys

\* the walk's next path is a descriptor whose body does not parse
MalformedNext ==
    /\ walk.paths # << >>
    /\ EndsWith(Head(walk.paths).relative_path, CONFIG_SUFFIX)
    /\ ParseConfig(fs, Canonicalize(fs, Head(walk.paths).absolute_path)[1]) = Failed

ScanSegments(i) == SplitOn(walk.order[i].relative_path, "/")

IsDescriptor(name) == EndsWith(name, CONFIG_SUFFIX)

\* the first segment at which two paths part
FirstDifference(a, b) ==
    CHOOSE k \in 1..Min(Len(a), Len(b)) :
        /\ a[k] # b[k]
        /\ \A m \in 1..(k - 1) : a[m] = b[m]

\* C9 (as claimed): in the scan's sequence every descriptor file comes before
\* every non-descriptor file, over the whole tree.
C9_DescriptorsBeforeAllOthers ==
    \A i, j \in 1..Len(walk.order) :
        ( /\ IsDescriptor(walk.order[i].relative_path)
          /\ ~IsDescriptor(walk.order[j].relative_path) )
        => i < j

\* C9 (amended): the scan's sequence lists every regular file under the root
\* once, depth first; where two paths part, in the directory they share, the
\* entry of the earlier path is a descriptor name and the other's is not, or
\* both are or both are not and the earlier entry's file name is the smaller.
C9_DescriptorsFirstPerDirectory ==
    /\ \A i, j \in 1..Len(walk.order) :
          i < j =>
            LET a == ScanSegments(i)
                b == ScanSegments(j)
                k == FirstDifference(a, b)
            IN  /\ \E n \in 1..Min(Len(a), Len(b)) : a[n] # b[n]
                /\ \/ IsDescriptor(a[k]) /\ ~IsDescriptor(b[k])
                   \/ /\ IsDescriptor(a[k]) = IsDescriptor(b[k])
                      /\ TextLess(a[k], b[k])
    /\ walk.pc # "idle" =>
          { << nT >> \o ScanSegments(i) : i \in 1..Len(walk.order) }
            = { q \in DOMAIN fs : fs[q].kind = "file" /\ Inside(q, << nT >>) }

\* C9 witness: a descriptor listed before an asset of its directory whose file
\* name is the smaller, and an asset of a subdirectory listed between them.
C9_Witness ==
    \E i, j, k \in 1..Len(walk.order) :
        /\ i < k /\ k < j
        /\ Len(ScanSegments(i)) = 1 /\ Len(ScanSegments(j)) = 1
        /\ IsDescriptor(ScanSegments(i)[1])
        /\ ~IsDescriptor(ScanSegments(j)[1])
        /\ TextLess(ScanSegments(j)[1], ScanSegments(i)[1])
        /\ Len(ScanSegments(k)) = 2

\* the directory of a relative path, and its file name
DirectoryOf(path) == SubSeq(path, 1, Min(Len(path), LastIndexOf(path, "/")))
NameOf(path) == SubSeq(path, LastIndexOf(path, "/") + 1, Len(path))

\* a file name with its extension removed: all of its extensions, or the last
StemsOf(name) ==
    { IF IndexOf(name, ".") = 0 THEN name
      ELSE SubSeq(name, 1, IndexOf(name, ".") - 1),
      IF LastIndexOf(name, ".") = 0 THEN name
      ELSE SubSeq(name, 1, LastIndexOf(name, ".") - 1) }

\* the asset a descriptor key names: same directory, same stem
Targets(key, asset) ==
    /\ DirectoryOf(asset) = DirectoryOf(key)
    /\ NameOf(key) \in StemsOf(NameOf(asset))

\* C10: during new_compressed an asset consumes a descriptor only when it is in
\* the descriptor's directory and its name without extension is the
\* descriptor's stem; and once the walk is over, every parsed descriptor whose
\* asset is in the tree has been consumed by exactly one asset.
C10_ConsumedBySameStem ==
    /\ \A a \in DOMAIN walk.log :
          walk.log[a].took # None => Targets(walk.log[a].took[1], a)
    /\ (walk.pc \in {"returned", "panicked"} /\ walk.paths = << >>) =>
          \A key \in ParsedKeys :
              (\E a \in DOMAIN walk.log : Targets(key, a))
              => Cardinality({ a \in DOMAIN walk.log :
                                 walk.log[a].took = Some(key) }) = 1

\* the TOML document of the descriptor stored under a key
DocumentOf(key) ==
    fs[<< nT >> \o SplitOn(key \o CONFIG_SUFFIX, "/")].toml[1]

\* a key of a document: its value when given, the default when omitted
GivenOr(value, default) == IF value = None THEN default ELSE value[1]

\* C11: the codec parameters applied to an asset are the defaults (9, 4096, 20,
\* 8, quality 90) when it consumes no descriptor; when it consumes one, each
\* key the descriptor gives has the descriptor's value (`"lossless"` selecting
\* lossless WebP) and each omitted key its default; and a descriptor is
\* consumed by at most one asset, so it changes no other asset's parameters.
C11_ParametersFromDescriptor ==
    /\ \A a \in DOMAIN walk.log :
          LET applied == walk.log[a].config
          IN  IF walk.log[a].took = None
              THEN applied = Config(9, 4096, 20, 8, Some(90))
              ELSE LET doc == DocumentOf(walk.log[a].took[1])
                   IN  /\ applied.brotli_level = GivenOr(doc.brotli_level, 9)
                       /\ applied.brotli_buffer_size =
                            GivenOr(doc.brotli_buffer_size, 4096)
                       /\ applied.brotli_large_window_size =
                            GivenOr(doc.brotli_large_window_size, 20)
                       /\ applied.gzip_level = GivenOr(doc.gzip_level, 8)
                       /\ applied.webp_quality =
                            IF doc.webp_quality = None THEN Some(90)
                            ELSE IF doc.webp_quality[1] = TomlStr("lossless")
                            THEN None
                            ELSE Some(doc.webp_quality[1].num)
    /\ \A a, b \in DOMAIN walk.log :
          (walk.log[a].took # None /\ walk.log[a].took = walk.log[b].took)
          => a = b

\* C11 witness: a returned store one of whose assets consumed a descriptor
\* giving gzip_level and lossless WebP, and another none.
C11_Witness ==
    /\ walk.pc = "returned"
    /\ \E a, c \in DOMAIN walk.log :
          /\ walk.log[a].took # None
          /\ walk.log[a].config = Config(9, 4096, 20, 1, None)
          /\ walk.log[c].took = None
          /\ walk.log[c].config = Config(9, 4096, 20, 8, Some(90))

-----------------------------------------------------------------------------
(* Properties of the store's operations (checked under SpecStore) *)

IsDescriptorPath(path) == EndsWith(path, CONFIG_SUFFIX)

\* C12 (as claimed): get of a path that ends with `.minicdn` is absent in
\* every reachable state of the store.
C12_DescriptorPathAbsent ==
    (last.op = "get" /\ IsDescriptorPath(last.path)) => last.result = None

\* C12 (amended): get of a path that ends with `.minicdn` is absent on a
\* Filesystem store; an Embedded store holds no record read from disk under
\* such a path, so get is absent there too unless a caller inserted a record
\* under that path, which get then returns.
C12_DescriptorPathAbsentUnlessInserted ==
    /\ (last.op = "get" /\ IsDescriptorPath(last.path)) =>
          /\ last.store.mode = "Filesystem" => last.result = None
          /\ last.result # None => last.result[1] \in Records
    /\ \A p \in DOMAIN cdn.files :
          IsDescriptorPath(p) => cdn.files[p] \in Records
    /\ last.op = "none" => \A p \in DOMAIN cdn.files : ~IsDescriptorPath(p)

\* C12 witness: the tree has a descriptor, other files of it are in the
\* Embedded store, and get of the descriptor's path is absent.
C12_Witness ==
    /\ last.op = "get"
    /\ last.path = nAcfg
    /\ << nT, nAcfg >> \in DOMAIN fs
    /\ last.store.mode = "Embedded"
    /\ nA \in DOMAIN last.store.files
    /\ last.result = None

\* the logical paths the scan yields
ScannedPaths ==
    { get_paths(fs, root)[i].relative_path : i \in 1..Len(get_paths(fs, root)) }

\* C13: after insert(q, r) on a Filesystem store the store is Embedded,
\* get(q) returns r, and every other scanned path whose get was present
\* before the insert is present with the same contents.
C13_InsertMaterialises ==
    (last.op = "insert" /\ last.store.mode = "Filesystem") =>
        /\ cdn.mode = "Embedded"
        /\ MiniCdnGet(fs, cdn, last.path) = last.result
        /\ \A p \in ScannedPaths \ {last.path} :
              MiniCdnGet(fs, last.store, p) # None =>
                  /\ MiniCdnGet(fs, cdn, p) # None
                  /\ MiniCdnGet(fs, cdn, p)[1].contents
                       = MiniCdnGet(fs, last.store, p)[1].contents

\* C13 witness: the insert was on a Filesystem store, at a path where the
\* disk has a file, and another file of the tree is retained.
C13_Witness ==
    /\ last.op = "insert"
    /\ last.store.mode = "Filesystem"
    /\ MiniCdnGet(fs, last.store, last.path) # None
    /\ MiniCdnGet(fs, cdn, last.path) = last.result
    /\ \E p \in ScannedPaths \ {last.path} : MiniCdnGet(fs, cdn, p) # None

\* C14: the mode changes only from Filesystem to Embedded and only in an
\* insert, after which the store is Embedded; get and for_each leave the store
\* as it is; an Embedded store stays Embedded.
C14_OnlyInsertChangesMode ==
    [][ /\ cdn'.mode # cdn.mode =>
              /\ cdn.mode = "Filesystem"
              /\ cdn'.mode = "Embedded"
              /\ last'.op = "insert"
        /\ last'.op \in {"get", "for_each"} => cdn' = cdn
        /\ last'.op = "insert" => cdn'.mode = "Embedded"
        /\ cdn.mode = "Embedded" => cdn'.mode = "Embedded" ]_vars

\* C14 witness: an insert has turned a Filesystem store into an Embedded one.
C14_Witness ==
    /\ last.op = "insert"
    /\ last.store.mode = "Filesystem"
    /\ cdn.mode = "Embedded"
    /\ last.store.root_path = root

\* where a logical path stands in the scan
ScanIndex(p) ==
    CHOOSE i \in 1..Len(get_paths(fs, root)) :
        get_paths(fs, root)[i].relative_path = p

\* C17: for_each on a Filesystem store calls the visitor once for each
\* scanned path whose get is present, in scan order, with the record get
\* returns; the other scanned paths are skipped.
C17_ForEachVisitsPresent ==
    (last.op = "for_each" /\ last.store.mode = "Filesystem") =>
        LET calls == last.result
        IN  /\ \A i \in DOMAIN calls :
                  /\ calls[i].path \in ScannedPaths
                  /\ ~IsDescriptorPath(calls[i].path)
                  /\ FsGet(fs, root, calls[i].path) = Some(calls[i].file)
            /\ \A p \in ScannedPaths :
                  FsGet(fs, root, p) # None =>
                      Cardinality({ i \in DOMAIN calls : calls[i].path = p }) = 1
            /\ \A i, j \in DOMAIN calls :
                  i < j => ScanIndex(calls[i].path) < ScanIndex(calls[j].path)
            /\ cdn = last.store

\* C17 witness: the scan yields a descriptor, a file and a link to a file
\* outside the root; the visitor was called for the file only.
C17_Witness ==
    /\ last.op = "for_each"
    /\ last.store.mode = "Filesystem"
    /\ ScannedPaths = { nAcfg, nA, nL }
    /\ Len(last.result) = 1
    /\ last.result[1].path = nA

\* the paths two maps and the callers know
KnownPaths == StorePaths \cup DOMAIN cdn.files \cup DOMAIN last.store.files

\* C18: on an Embedded store, after insert(p, r) get(p) returns r and every
\* other get is unchanged; after remove(p) get(p) is absent and every other
\* get is unchanged (a remove of a path not stored changes nothing); get
\* returns what the map holds and changes nothing.
C18_EmbeddedIsAMap ==
    last.store.mode = "Embedded" =>
        /\ last.op = "insert" =>
              \A q \in KnownPaths :
                  EmbGet(cdn.files, q) =
                      IF q = last.path THEN last.result
                      ELSE EmbGet(last.store.files, q)
        /\ last.op = "remove" =>
              /\ \A q \in KnownPaths :
                    EmbGet(cdn.files, q) =
                        IF q = last.path THEN None
                        ELSE EmbGet(last.store.files, q)
              /\ last.path \notin DOMAIN last.store.files => cdn = last.store
        /\ last.op = "get" =>
              /\ cdn = last.store
              /\ last.result =
                   IF last.path \in DOMAIN cdn.files
                   THEN Some(cdn.files[last.path]) ELSE None

\* C18 witness: an insert replaced an earlier, different record, in a map that
\* holds other paths.
C18_Witness ==
    /\ last.op = "insert"
    /\ last.store.mode = "Embedded"
    /\ last.path \in DOMAIN last.store.files
    /\ last.store.files[last.path] # last.result[1]
    /\ cdn.files[last.path] = last.result[1]
    /\ Cardinality(DOMAIN cdn.files) >= 2

-----------------------------------------------------------------------------
(* Properties of a store on a changing tree (checked under SpecLazy) *)

\* C15: on a Filesystem store a present result of get has the bytes the file
\* at the canonical location had on disk when the call read it (the rewritten
\* bytes when the file was rewritten before the call) and no brotli, gzip or
\* WebP contents; an Embedded store returns the record it holds, captured when
\* it was built or inserted, and never the bytes rewritten on disk since.
C15_FilesystemReadsDisk ==
    (last.op = "get" /\ last.result # None /\ call.pc = "idle"
     /\ call.path = last.path) =>
        /\ last.store.mode = "Filesystem" =>
              /\ call.canonical \in DOMAIN call.seen
              /\ last.result[1].contents = call.seen[call.canonical].contents
              /\ last.result[1].contents_brotli = None
              /\ last.result[1].contents_gzip = None
              /\ last.result[1].contents_webp = None
        /\ last.store.mode = "Embedded" =>
              /\ last.path \in DOMAIN last.store.files
              /\ last.result[1] = last.store.files[last.path]
              /\ last.result[1].contents # Rewritten

\* C15 witness: the file was rewritten and a get on the Filesystem store
\* returned the new bytes.
C15_Witness ==
    /\ last.op = "get"
    /\ last.store.mode = "Filesystem"
    /\ last.result # None
    /\ last.result[1].contents = Rewritten
    /\ last.result[1].contents_brotli = None

\* C16: a Filesystem get never ends in a panic: a file that is missing, cannot
\* be canonicalized or read, or whose metadata cannot be obtained, gives absent.
C16_NeverPanics == last.op # "panic"

-----------------------------------------------------------------------------
(* The two eager constructors compared (checked under Spec, whose trees hold  *)
(* no descriptor and do not change)                                           *)

\* C19: a store built by either eager constructor holds the logical paths that
\* EmbeddedMiniCdn::new collects from the same tree, each with the same
\* contents; a store built by new_compressed differs from it in the compressed
\* contents only.
C19_ConstructorsAgree ==
    cdn.mode = "Embedded" =>
        LET plain == EmbeddedNew(fs, root)
        IN  /\ DOMAIN cdn.files = DOMAIN plain
            /\ \A p \in DOMAIN plain : cdn.files[p].contents = plain[p].contents

=============================================================================
